---- MODULE Spec2Model ----
(***************************************************************************)
(* A model of the loose-object store of src/src/catfile.rs (parse_blob,    *)
(* parse_object_path_from_hash, cat_file, hash_object) and of the          *)
(* repository bootstrap of src/src/main.rs (init).                         *)
(*                                                                         *)
(* Text is modelled as Rust holds it: a String / &str is a sequence of     *)
(* Unicode code points, a file or a reader is a sequence of bytes, and     *)
(* the two are related by UTF-8.  Byte offsets (split_at) and character    *)
(* counts (chars().count()) are therefore different things, as in Rust.    *)
(***************************************************************************)
EXTENDS Integers, Sequences, FiniteSets, TLC

VARIABLES fs, last, procs

vars == <<fs, last, procs>>

----------------------------------------------------------------------------
(* Bounds of the input families.                                           *)

\* hashes are tried with HashLen - MaxDelta .. HashLen + MaxDelta characters
MaxDelta == 1

----------------------------------------------------------------------------
(* Program constants.                                                      *)

\* catfile.rs:35  hash.chars().count() == 40
HashLen == 40
\* catfile.rs:36  hash.split_at(2)
ShardSplit == 2
\* catfile.rs:55  object_path.split_at(17)
DirSplit == 17
\* catfile.rs:18  let mut header: [u8; 4]
HeaderLen == 4
\* catfile.rs:28  parse::<u8>(): the largest value of the type
U8Max == 255

\* catfile.rs:21  "blob"
BlobTag == <<98, 108, 111, 98>>
\* catfile.rs:37  "./.git/objects/"
ObjectsPrefix == <<46, 47, 46, 103, 105, 116, 47, 111, 98, 106, 101, 99, 116, 115, 47>>
\* catfile.rs:51  the hash literal of hash_object
HashLiteral ==
  <<97, 99, 49, 51, 54, 48, 54, 54, 57, 52, 55, 57, 55, 54, 101, 57, 102, 53, 97,
    101, 55, 99, 99, 54, 98, 100, 99, 99, 97, 99, 50, 50, 100, 48, 102, 99, 48,
    102, 54, 102>>

NUL == 0
SLASH == 47
SPACE == 32
NEWLINE == 10
PLUS == 43

----------------------------------------------------------------------------
(* Results: Result<T, Error> and a panic (an abort of the process).        *)

Ok(v) == [kind |-> "Ok", err |-> "", val |-> v]
Err(e, v) == [kind |-> "Err", err |-> e, val |-> v]
Panic == [kind |-> "Panic", err |-> "", val |-> <<>>]

----------------------------------------------------------------------------
(* UTF-8, as std::str::from_utf8 and str::len see it.                      *)

\* the number of bytes of the UTF-8 encoding of code point c
Utf8Len(c) == IF c < 128 THEN 1 ELSE IF c < 2048 THEN 2 ELSE IF c < 65536 THEN 3 ELSE 4

IsCont(b) == b >= 128 /\ b <= 191

\* the length of the well-formed UTF-8 sequence at the head of bs, 0 if none
Utf8SeqLen(bs) ==
  LET n == Len(bs)
      b1 == bs[1]
  IN  IF n = 0 THEN 0
      ELSE IF b1 < 128 THEN 1
      ELSE IF b1 >= 194 /\ b1 <= 223
        THEN IF n >= 2 /\ IsCont(bs[2]) THEN 2 ELSE 0
      ELSE IF b1 >= 224 /\ b1 <= 239
        THEN IF n >= 3 /\ IsCont(bs[2]) /\ IsCont(bs[3])
                /\ (b1 = 224 => bs[2] >= 160)
                /\ (b1 = 237 => bs[2] <= 159)
             THEN 3 ELSE 0
      ELSE IF b1 >= 240 /\ b1 <= 244
        THEN IF n >= 4 /\ IsCont(bs[2]) /\ IsCont(bs[3]) /\ IsCont(bs[4])
                /\ (b1 = 240 => bs[2] >= 144)
                /\ (b1 = 244 => bs[2] <= 143)
             THEN 4 ELSE 0
      ELSE 0

RECURSIVE Utf8Valid(_)
Utf8Valid(bs) ==
  IF bs = <<>> THEN TRUE
  ELSE LET k == Utf8SeqLen(bs)
       IN  k > 0 /\ Utf8Valid(SubSeq(bs, k + 1, Len(bs)))

\* the code point of the well-formed k-byte sequence at the head of bs
Utf8Head(bs, k) ==
  IF k = 1 THEN bs[1]
  ELSE IF k = 2 THEN (bs[1] - 192) * 64 + (bs[2] - 128)
  ELSE IF k = 3 THEN (bs[1] - 224) * 4096 + (bs[2] - 128) * 64 + (bs[3] - 128)
  ELSE (bs[1] - 240) * 262144 + (bs[2] - 128) * 4096 + (bs[3] - 128) * 64 + (bs[4] - 128)

\* bytes -> String, defined on valid UTF-8
RECURSIVE Utf8Decode(_)
Utf8Decode(bs) ==
  IF bs = <<>> THEN <<>>
  ELSE LET k == Utf8SeqLen(bs)
       IN  <<Utf8Head(bs, k)>> \o Utf8Decode(SubSeq(bs, k + 1, Len(bs)))

\* the UTF-8 bytes of one code point
Utf8Char(c) ==
  IF c < 128 THEN <<c>>
  ELSE IF c < 2048 THEN <<192 + (c \div 64), 128 + (c % 64)>>
  ELSE IF c < 65536
    THEN <<224 + (c \div 4096), 128 + ((c \div 64) % 64), 128 + (c % 64)>>
  ELSE <<240 + (c \div 262144), 128 + ((c \div 4096) % 64),
         128 + ((c \div 64) % 64), 128 + (c % 64)>>

\* String -> bytes
RECURSIVE Utf8Encode(_)
Utf8Encode(s) == IF s = <<>> THEN <<>> ELSE Utf8Char(Head(s)) \o Utf8Encode(Tail(s))

----------------------------------------------------------------------------
(* Character classes of the Rust standard library.                         *)

IsAsciiDigit(c) == c >= 48 /\ c <= 57

\* the alphanumeric code points beyond ASCII that the inputs below use:
\* U+00E9 (2 bytes in UTF-8) and U+4E2D (3 bytes)
NonAsciiAlphanumeric == {233, 20013}

\* char::is_alphanumeric (Unicode Alphabetic or Numeric)
IsAlphanumeric(c) ==
  \/ IsAsciiDigit(c)
  \/ (c >= 65 /\ c <= 90)
  \/ (c >= 97 /\ c <= 122)
  \/ c \in NonAsciiAlphanumeric

\* char::is_whitespace (Unicode White_Space), used by str::trim_start
IsWhitespace(c) ==
  \/ (c >= 9 /\ c <= 13)
  \/ c \in {32, 133, 160, 5760, 8232, 8233, 8239, 8287, 12288}
  \/ (c >= 8192 /\ c <= 8202)

\* str::trim_start
RECURSIVE TrimStart(_)
TrimStart(s) ==
  IF s # <<>> /\ IsWhitespace(Head(s)) THEN TrimStart(Tail(s)) ELSE s

\* the index of the first c in s, 0 if there is none
RECURSIVE IndexFrom(_, _, _)
IndexFrom(s, c, i) ==
  IF i > Len(s) THEN 0 ELSE IF s[i] = c THEN i ELSE IndexFrom(s, c, i + 1)

IndexOf(s, c) == IndexFrom(s, c, 1)

\* str::split_at(mid): mid is a BYTE offset; it panics when mid is past the
\* end or not on a character boundary.  The result is the number of
\* characters before the split, or -1 for the panic.
RECURSIVE SplitScan(_, _, _, _)
SplitScan(s, mid, k, bytes) ==
  IF bytes = mid THEN k
  ELSE IF bytes > mid \/ k = Len(s) THEN -1
  ELSE SplitScan(s, mid, k + 1, bytes + Utf8Len(s[k + 1]))

SplitPoint(s, mid) == SplitScan(s, mid, 0, 0)

RECURSIVE DigitsValue(_, _)
DigitsValue(s, acc) ==
  IF s = <<>> THEN acc ELSE DigitsValue(Tail(s), acc * 10 + (Head(s) - 48))

\* str::parse::<u8>().is_ok(): an optional '+', then one or more ASCII
\* digits, whose value fits the type
ParseU8Ok(s) ==
  LET digits == IF s # <<>> /\ Head(s) = PLUS THEN Tail(s) ELSE s
  IN  /\ digits # <<>>
      /\ \A i \in 1..Len(digits) : IsAsciiDigit(digits[i])
      /\ DigitsValue(digits, 0) <= U8Max

----------------------------------------------------------------------------
(* parse_blob (catfile.rs:16-32, the same text as main.rs:43-59).          *)
(* The reader is [data, fail]: it yields data and then ends, with an I/O   *)
(* error when fail.  present = FALSE is the None of Option<R>.             *)

parse_blob(present, reader) ==
  IF ~present THEN Err("ObjectNotFound", <<>>)
  ELSE IF Len(reader.data) < HeaderLen THEN Err("MalformedObject", <<>>)
  ELSE LET header == SubSeq(reader.data, 1, HeaderLen)
           rest == SubSeq(reader.data, HeaderLen + 1, Len(reader.data))
       IN  IF ~Utf8Valid(header) THEN Panic
           ELSE IF Utf8Decode(header) # BlobTag THEN Err("MalformedObject", <<>>)
           ELSE IF reader.fail \/ ~Utf8Valid(rest) THEN Err("MalformedObject", <<>>)
           ELSE LET content == TrimStart(Utf8Decode(rest))
                    i == IndexOf(content, NUL)
                IN  IF i = 0 THEN Err("MalformedObject", <<>>)
                    ELSE IF ~ParseU8Ok(SubSeq(content, 1, i - 1))
                      THEN Err("MalformedObject", <<>>)
                    ELSE Ok(SubSeq(content, i + 1, Len(content)))

----------------------------------------------------------------------------
(* parse_object_path_from_hash (catfile.rs:34-40).                         *)

\* parse_object_path_from_hash with the length checked and the characters not
parse_object_path_unchecked_chars(hash) ==
  IF Len(hash) = HashLen
  THEN LET k == SplitPoint(hash, ShardSplit)
       IN  IF k < 0 THEN Panic
           ELSE Ok(ObjectsPrefix \o SubSeq(hash, 1, k) \o <<SLASH>>
                     \o SubSeq(hash, k + 1, Len(hash)))
  ELSE Err("InvalidObjectHash", hash)

parse_object_path_from_hash(hash) ==
  IF Len(hash) = HashLen /\ \A i \in 1..Len(hash) : IsAlphanumeric(hash[i])
  THEN LET k == SplitPoint(hash, ShardSplit)
       IN  IF k < 0 THEN Panic
           ELSE Ok(ObjectsPrefix \o SubSeq(hash, 1, k) \o <<SLASH>>
                     \o SubSeq(hash, k + 1, Len(hash)))
  ELSE Err("InvalidObjectHash", hash)

----------------------------------------------------------------------------
(* The file system under the working directory, as std::fs sees it.        *)
(* fs.dirs is the set of directories, fs.files maps each file to its       *)
(* bytes; paths are kept without a leading "./".                           *)

\* ".git", ".git/objects", ".git/refs", ".git/HEAD" (main.rs:31-34)
GitDir == <<46, 103, 105, 116>>
GitObjectsDir == <<46, 103, 105, 116, 47, 111, 98, 106, 101, 99, 116, 115>>
GitRefsDir == <<46, 103, 105, 116, 47, 114, 101, 102, 115>>
GitHeadFile == <<46, 103, 105, 116, 47, 72, 69, 65, 68>>
\* "ref: refs/heads/main\n" (main.rs:34)
HeadContent ==
  <<114, 101, 102, 58, 32, 114, 101, 102, 115, 47, 104, 101, 97, 100, 115, 47,
    109, 97, 105, 110, 10>>
\* "Initialized git directory\n" (main.rs:35)
InitMessage ==
  <<73, 110, 105, 116, 105, 97, 108, 105, 122, 101, 100, 32, 103, 105, 116, 32,
    100, 105, 114, 101, 99, 116, 111, 114, 121, 10>>
\* "." : the working directory
Cwd == <<46>>

EmptyFs == [dirs |-> {}, files |-> [p \in {} |-> <<>>]]

RECURSIVE Normalize(_)
Normalize(path) ==
  IF Len(path) >= 2 /\ path[1] = 46 /\ path[2] = SLASH
  THEN Normalize(SubSeq(path, 3, Len(path)))
  ELSE path

RECURSIVE LastSlash(_, _)
LastSlash(path, i) ==
  IF i = 0 THEN 0 ELSE IF path[i] = SLASH THEN i ELSE LastSlash(path, i - 1)

\* the directory a normalized path lies in
Parent(path) ==
  LET i == LastSlash(path, Len(path))
  IN  IF i = 0 THEN Cwd ELSE SubSeq(path, 1, i - 1)

IsDir(f, path) == path = Cwd \/ path \in f.dirs
IsFile(f, path) == path \in DOMAIN f.files

\* the errors a backend can raise beyond "not found" / "already exists"
BackendFaults == {"PermissionDenied", "StorageFull"}
NoFault == ""

\* std::fs::write(path, data): create or truncate, then write
FsWrite(f, path, data, fault) ==
  LET p == Normalize(path)
  IN  IF fault # NoFault THEN [fs |-> f, err |-> fault]
      ELSE IF ~IsDir(f, Parent(p)) THEN [fs |-> f, err |-> "NotFound"]
      ELSE IF IsDir(f, p) THEN [fs |-> f, err |-> "IsADirectory"]
      ELSE [fs |-> [f EXCEPT !.files =
                      [q \in DOMAIN f.files \cup {p} |->
                         IF q = p THEN data ELSE f.files[q]]],
            err |-> ""]

\* std::fs::create_dir(path)
FsCreateDir(f, path, fault) ==
  LET p == Normalize(path)
  IN  IF fault # NoFault THEN [fs |-> f, err |-> fault]
      ELSE IF IsDir(f, p) \/ IsFile(f, p) THEN [fs |-> f, err |-> "AlreadyExists"]
      ELSE IF ~IsDir(f, Parent(p)) THEN [fs |-> f, err |-> "NotFound"]
      ELSE [fs |-> [f EXCEPT !.dirs = @ \cup {p}], err |-> ""]

\* std::fs::File::open(path), read-only
FsOpen(f, path, fault) ==
  LET p == Normalize(path)
  IN  IF fault # NoFault THEN [data |-> <<>>, err |-> fault]
      ELSE IF ~IsFile(f, p) THEN [data |-> <<>>, err |-> "NotFound"]
      ELSE [data |-> f.files[p], err |-> ""]

\* one entry of the log of storage calls an operation made
IoCall(call, path, r) == [call |-> call, path |-> Normalize(path), outcome |-> r.err]

----------------------------------------------------------------------------
(* flate2::read::ZlibDecoder over a file (catfile.rs:44).  An empty input  *)
(* holds no zlib stream: the decoder yields no byte.  A non-empty input is *)
(* decoded when it is a zlib stream of one stored (uncompressed) deflate   *)
(* block; anything else the model reads as a corrupt stream.               *)

AdlerMod == 65521

RECURSIVE AdlerA(_, _)
AdlerA(bs, i) == IF i = 0 THEN 1 ELSE (AdlerA(bs, i - 1) + bs[i]) % AdlerMod

RECURSIVE AdlerB(_, _)
AdlerB(bs, i) == IF i = 0 THEN 0 ELSE (AdlerB(bs, i - 1) + AdlerA(bs, i)) % AdlerMod

\* the four bytes of the Adler-32 checksum, most significant first
Adler32(bs) ==
  LET a == AdlerA(bs, Len(bs))
      b == AdlerB(bs, Len(bs))
  IN  <<b \div 256, b % 256, a \div 256, a % 256>>

ZlibDecode(bs) ==
  LET n == Len(bs)
      len == bs[4] + 256 * bs[5]
      nlen == bs[6] + 256 * bs[7]
      data == SubSeq(bs, 8, 7 + len)
  IN  IF n = 0 THEN [data |-> <<>>, fail |-> FALSE]
      ELSE IF n < 7 THEN [data |-> <<>>, fail |-> TRUE]
      ELSE IF \/ bs[1] % 16 # 8
              \/ (bs[1] * 256 + bs[2]) % 31 # 0
              \/ (bs[2] \div 32) % 2 # 0
              \/ bs[3] # 1
              \/ len + nlen # 65535
        THEN [data |-> <<>>, fail |-> TRUE]
      ELSE IF n < 7 + len THEN [data |-> SubSeq(bs, 8, n), fail |-> TRUE]
      ELSE IF n < 11 + len \/ SubSeq(bs, 8 + len, 11 + len) # Adler32(data)
        THEN [data |-> data, fail |-> TRUE]
      ELSE [data |-> data, fail |-> FALSE]

----------------------------------------------------------------------------
(* The operations.  Each returns the file system it leaves, its result,    *)
(* what it printed on standard output and the storage calls it made.       *)
(* flt gives, for each storage call in program order, the fault the        *)
(* backend raises there (NoFault for none).                                *)

Outcome(f, res, out, io) == [fs |-> f, res |-> res, out |-> out, io |-> io]

\* init (main.rs:30-37)
init(f, flt) ==
  LET d1 == FsCreateDir(f, GitDir, flt[1])
      d2 == FsCreateDir(d1.fs, GitObjectsDir, flt[2])
      d3 == FsCreateDir(d2.fs, GitRefsDir, flt[3])
      w4 == FsWrite(d3.fs, GitHeadFile, Utf8Encode(HeadContent), flt[4])
      c1 == IoCall("create_dir", GitDir, d1)
      c2 == IoCall("create_dir", GitObjectsDir, d2)
      c3 == IoCall("create_dir", GitRefsDir, d3)
      c4 == IoCall("write", GitHeadFile, w4)
  IN  IF d1.err # "" THEN Outcome(d1.fs, Err(d1.err, <<>>), <<>>, <<c1>>)
      ELSE IF d2.err # "" THEN Outcome(d2.fs, Err(d2.err, <<>>), <<>>, <<c1, c2>>)
      ELSE IF d3.err # "" THEN Outcome(d3.fs, Err(d3.err, <<>>), <<>>, <<c1, c2, c3>>)
      ELSE IF w4.err # "" THEN Outcome(w4.fs, Err(w4.err, <<>>), <<>>, <<c1, c2, c3, c4>>)
      ELSE Outcome(w4.fs, Ok(<<>>), InitMessage, <<c1, c2, c3, c4>>)

\* cat_file (catfile.rs:42-48)
cat_file(f, hash, flt) ==
  LET path == parse_object_path_from_hash(hash)
      o == FsOpen(f, path.val, flt[1])
      \* .map(ZlibDecoder::new).ok(): any error of open becomes None
      content == parse_blob(o.err = "", ZlibDecode(o.data))
      io == <<IoCall("open", path.val, o)>>
  IN  IF path.kind # "Ok" THEN Outcome(f, path, <<>>, <<>>)
      ELSE IF content.kind # "Ok" THEN Outcome(f, content, <<>>, io)
      ELSE Outcome(f, Ok(<<>>), content.val, io)

\* hash_object creating the shard directory before it writes, whether or
\* not the directory is there
hash_object_create_first(f, flt) ==
  LET hash == HashLiteral
      object_path == parse_object_path_from_hash(hash).val
      directory == SubSeq(object_path, 1, SplitPoint(object_path, DirSplit))
      d1 == FsCreateDir(f, directory, flt[1])
      w2 == FsWrite(d1.fs, object_path, <<>>, flt[2])
      c1 == IoCall("create_dir", directory, d1)
      c2 == IoCall("write", object_path, w2)
  IN  IF d1.err # "" THEN Outcome(d1.fs, Err(d1.err, <<>>), <<>>, <<c1>>)
      ELSE IF w2.err # "" THEN Outcome(w2.fs, Err(w2.err, <<>>), <<>>, <<c1, c2>>)
      ELSE Outcome(w2.fs, Ok(<<>>), hash \o <<NEWLINE>>, <<c1, c2>>)

\* hash_object (catfile.rs:50-62).  The argument _path is not read.
hash_object(f, flt) ==
  LET hash == HashLiteral
      path == parse_object_path_from_hash(hash)
      object_path == path.val
      w1 == FsWrite(f, object_path, <<>>, flt[1])
      k == SplitPoint(object_path, DirSplit)
      directory == SubSeq(object_path, 1, k)
      d2 == FsCreateDir(w1.fs, directory, flt[2])
      w3 == FsWrite(d2.fs, object_path, <<>>, flt[3])
      c1 == IoCall("write", object_path, w1)
      c2 == IoCall("create_dir", directory, d2)
      c3 == IoCall("write", object_path, w3)
      printed == hash \o <<NEWLINE>>
  IN  IF path.kind # "Ok" THEN Outcome(f, path, <<>>, <<>>)
      ELSE IF w1.err = "" THEN Outcome(w1.fs, Ok(<<>>), printed, <<c1>>)
      ELSE IF w1.err # "NotFound" THEN Outcome(w1.fs, Ok(<<>>), printed, <<c1>>)
      ELSE IF k < 0 THEN Outcome(w1.fs, Panic, <<>>, <<c1>>)
      ELSE IF d2.err # "" THEN Outcome(d2.fs, Err(d2.err, <<>>), <<>>, <<c1, c2>>)
      ELSE IF w3.err # "" THEN Outcome(w3.fs, Err(w3.err, <<>>), <<>>, <<c1, c2, c3>>)
      ELSE Outcome(w3.fs, Ok(<<>>), printed, <<c1, c2, c3>>)

----------------------------------------------------------------------------
(* Inputs.                                                                 *)

RECURSIVE Pad(_, _)
Pad(c, n) == IF n <= 0 THEN <<>> ELSE <<c>> \o Pad(c, n - 1)

RECURSIVE Decimal(_)
Decimal(n) == IF n < 10 THEN <<48 + n>> ELSE Decimal(n \div 10) \o <<48 + (n % 10)>>

\* the frame of the tests (catfile.rs:70): "blob" SP decimal(n) NUL payload
Frame(n, payload) == BlobTag \o <<SPACE>> \o Decimal(n) \o <<NUL>> \o payload

\* a zlib stream holding bs in one stored block, as zlib writes at level 0
ZlibStore(bs) ==
  LET len == Len(bs)
      nlen == 65535 - len
  IN  <<120, 1, 1, len % 256, len \div 256, nlen % 256, nlen \div 256>>
        \o bs \o Adler32(bs)

\* "abcd123" (catfile.rs:71) and the name git gives the blob holding it
TestContent == <<97, 98, 99, 100, 49, 50, 51>>
TestContentHash ==
  <<101, 55, 49, 48, 57, 56, 48, 48, 98, 49, 48, 49, 48, 57, 50, 50, 56, 54, 56,
    101, 101, 48, 49, 52, 56, 101, 49, 102, 99, 52, 98, 98, 98, 98, 55, 102, 54,
    50, 56, 48>>
\* the hash of the test of parse_object_path_from_hash (catfile.rs:116)
TestHash ==
  <<97, 49, 98, 50, 99, 51, 100, 52, 101, 53, 102, 54, 103, 55, 104, 56, 105, 57,
    106, 48, 97, 49, 98, 50, 99, 51, 100, 52, 101, 53, 102, 54, 103, 55, 104, 56,
    105, 57, 106, 48>>

\* the characters tried in a hash: 'a', '9', '/', U+00E9, U+4E2D
HashAlphabet == {97, 57, SLASH, 233, 20013}

\* the hash of the test with invalid characters (catfile.rs:126)
TestBadHash ==
  <<97, 49, 98, 50, 99, 51, 100, 52, 101, 53, 102, 54, 103, 55, 104, 56, 105, 57,
    106, 47, 97, 49, 98, 50, 99, 51, 100, 52, 101, 53, 102, 54, 103, 55, 104, 56,
    105, 57, 106, 47>>

RECURSIVE Strings(_, _)
Strings(alphabet, n) ==
  IF n = 0 THEN {<<>>}
  ELSE {<<c>> \o s : c \in alphabet, s \in Strings(alphabet, n - 1)}

\* the hashes tried: every shard name over the alphabet, filled with 'a'
\* to a length around HashLen; the hashes of the tests and of the objects
HashInputs ==
  {SubSeq(pre \o Pad(97, HashLen + MaxDelta), 1, n) :
     pre \in Strings(HashAlphabet, ShardSplit),
     n \in (HashLen - MaxDelta)..(HashLen + MaxDelta)}
  \cup {<<>>, HashLiteral, TestHash, TestBadHash, TestContentHash}

\* the hashes tried over a failing backend
FaultHashInputs == {<<>>, HashLiteral, TestHash, TestContentHash}

\* the contents given to hash_object (the bytes of the file _path names)
Contents == {<<>>, <<97>>, TestContent, <<255, 0>>}

\* the byte streams given to parse_blob: tag, separator, size field,
\* terminator and payload, each right or wrong
TagInputs == {BlobTag, <<116, 114, 101, 101>>, <<98, 108, 111>>, <<>>,
              <<255, 108, 111, 98>>, <<195, 169, 111, 98>>}
SeparatorInputs == {<<>>, <<SPACE>>, <<SPACE, 9>>}
SizeInputs == {<<>>, <<88>>, <<PLUS, 55>>, <<45, 55>>, <<55, SPACE>>, <<48, 48, 55>>,
               Decimal(7), Decimal(U8Max), Decimal(U8Max + 1)}
TerminatorInputs == {<<>>, <<NUL>>}
PayloadInputs == {<<>>, TestContent, <<97, NUL, 98>>, <<255>>, <<195, 169>>}

\* the sizes of the well-formed frames among StreamInputs
FrameSizes == {0, 7, U8Max, U8Max + 1, 1000}

StreamInputs ==
  {tag \o <<SPACE>> \o Decimal(Len(TestContent)) \o <<NUL>> \o TestContent :
     tag \in TagInputs}
  \cup {BlobTag \o sep \o size \o nul \o TestContent :
           sep \in SeparatorInputs, size \in SizeInputs, nul \in TerminatorInputs}
  \cup {Frame(n, payload) : n \in FrameSizes, payload \in PayloadInputs}
  \cup {<<49, 50, 51, 52, 53>>, BlobTag, Decimal(7) \o <<NUL>> \o TestContent}

\* a repository that init made and git filled with one blob, stored
\* uncompressed
GitRepo ==
  LET made == init(EmptyFs, <<NoFault, NoFault, NoFault, NoFault>>).fs
      path == Normalize(parse_object_path_from_hash(TestContentHash).val)
      shard == FsCreateDir(made, Parent(path), NoFault).fs
  IN  FsWrite(shard, path, ZlibStore(Frame(Len(TestContent), TestContent)), NoFault).fs

\* the backend raises no fault
NoFaults == <<NoFault, NoFault, NoFault, NoFault>>
\* the backend raises any fault at any of the n calls of an operation
FaultChoices(n) == [1..n -> BackendFaults \cup {NoFault}]

----------------------------------------------------------------------------
(* State.  fs is the file system; last records the operation that ran      *)
(* last: its name, its argument (present = FALSE for parse_blob(None)),    *)
(* its result, its output, its storage calls and whether it repeats the    *)
(* operation before it; procs holds the position of each of two processes  *)
(* running hash_object side by side.                                       *)

Procs == {1, 2}

Idle == [pc |-> "idle", arg |-> <<>>, missing |-> FALSE, res |-> Ok(<<>>), out |-> <<>>]

NoOp == [op |-> "none", arg |-> <<>>, present |-> FALSE, res |-> Ok(<<>>),
         out |-> <<>>, io |-> <<>>, again |-> FALSE]

\* again: the operation before was the same, on the same argument, and
\* returned Ok
Record(op, arg, present, o) ==
  [op |-> op, arg |-> arg, present |-> present, res |-> o.res, out |-> o.out,
   io |-> o.io,
   again |-> last.op = op /\ last.arg = arg /\ last.res.kind = "Ok"]

Init ==
  /\ fs \in {EmptyFs, GitRepo}
  /\ last = NoOp
  /\ procs = [p \in Procs |-> Idle]

\* git init
DoInit(flt) ==
  LET o == init(fs, flt)
  IN  /\ fs' = o.fs
      /\ last' = Record("init", <<>>, TRUE, o)
      /\ UNCHANGED procs

\* git cat-file -p <hash>
DoCatFile(hash, flt) ==
  LET o == cat_file(fs, hash, flt)
  IN  /\ fs' = o.fs
      /\ last' = Record("cat_file", hash, TRUE, o)
      /\ UNCHANGED procs

\* git hash-object -w <file>, content being the bytes of the file
DoHashObject(content, flt) ==
  LET o == hash_object(fs, flt)
  IN  /\ fs' = o.fs
      /\ last' = Record("hash_object", content, TRUE, o)
      /\ UNCHANGED procs

\* parse_blob on a reader over bytes, or on None
DoParseBlob(present, bytes) ==
  /\ last' = Record("parse_blob", bytes, present,
                    Outcome(fs, parse_blob(present, [data |-> bytes, fail |-> FALSE]),
                            <<>>, <<>>))
  /\ UNCHANGED <<fs, procs>>

\* parse_object_path_from_hash
DoParsePath(hash) ==
  /\ last' = Record("parse_object_path_from_hash", hash, TRUE,
                    Outcome(fs, parse_object_path_from_hash(hash), <<>>, <<>>))
  /\ UNCHANGED <<fs, procs>>

\* the hash the last operation printed, when it was hash_object
PrintedHash == SubSeq(last.out, 1, Len(last.out) - 1)

CatFileInputs ==
  HashInputs \cup (IF last.op = "hash_object" /\ last.res.kind = "Ok"
                   THEN {PrintedHash} ELSE {})

Next ==
  \/ DoInit(NoFaults)
  \/ \E hash \in CatFileInputs : DoCatFile(hash, NoFaults)
  \/ \E content \in Contents : DoHashObject(content, NoFaults)
  \/ \E bytes \in StreamInputs : DoParseBlob(TRUE, bytes)
  \/ DoParseBlob(FALSE, <<>>)
  \/ \E hash \in HashInputs : DoParsePath(hash)

Spec == Init /\ [][Next]_vars

\* the same operations over a backend that may fail any storage call
NextFault ==
  \/ \E flt \in FaultChoices(4) : DoInit(flt)
  \/ \E hash \in FaultHashInputs, flt \in FaultChoices(1) : DoCatFile(hash, flt)
  \/ \E content \in Contents, flt \in FaultChoices(3) : DoHashObject(content, flt)

SpecFault == Init /\ [][NextFault]_vars

----------------------------------------------------------------------------
(* Two processes running hash_object side by side on one file system.      *)
(* Each storage call of hash_object (catfile.rs:53-60) is one step.        *)

ObjectPath == parse_object_path_from_hash(HashLiteral).val

\* the shard directory hash_object creates (catfile.rs:55)
ShardDir == SubSeq(ObjectPath, 1, SplitPoint(ObjectPath, DirSplit))

\* <root>/objects/ is there
RootReady(f) == IsDir(f, GitObjectsDir)

Finish(p, res, out) ==
  procs' = [procs EXCEPT ![p].pc = "done", ![p].res = res, ![p].out = out]

\* the call; missing records that the root was ready and the shard absent
PutCall(p, content) ==
  /\ procs[p].pc = "idle"
  /\ procs' = [procs EXCEPT ![p].pc = "write", ![p].arg = content,
                            ![p].missing = RootReady(fs) /\ ~IsDir(fs, Normalize(ShardDir))]
  /\ UNCHANGED <<fs, last>>

\* catfile.rs:53-54  fs::write(object_path.clone(), "")
PutWrite(p) ==
  /\ procs[p].pc = "write"
  /\ LET w == FsWrite(fs, ObjectPath, <<>>, NoFault)
     IN  /\ fs' = w.fs
         /\ procs' = [procs EXCEPT ![p].pc =
                        IF w.err = "NotFound" THEN "create_dir" ELSE "println"]
  /\ UNCHANGED last

\* catfile.rs:55-56  fs::create_dir(directory)?
PutCreateDir(p) ==
  /\ procs[p].pc = "create_dir"
  /\ LET d == FsCreateDir(fs, ShardDir, NoFault)
     IN  /\ fs' = d.fs
         /\ IF d.err # ""
            THEN Finish(p, Err(d.err, <<>>), <<>>)
            ELSE procs' = [procs EXCEPT ![p].pc = "rewrite"]
  /\ UNCHANGED last

\* catfile.rs:57  fs::write(object_path, "")?
PutRewrite(p) ==
  /\ procs[p].pc = "rewrite"
  /\ LET w == FsWrite(fs, ObjectPath, <<>>, NoFault)
     IN  /\ fs' = w.fs
         /\ IF w.err # ""
            THEN Finish(p, Err(w.err, <<>>), <<>>)
            ELSE procs' = [procs EXCEPT ![p].pc = "println"]
  /\ UNCHANGED last

\* catfile.rs:60-61  println!("{hash}"); Ok(())
PutPrintln(p) ==
  /\ procs[p].pc = "println"
  /\ Finish(p, Ok(<<>>), HashLiteral \o <<NEWLINE>>)
  /\ UNCHANGED <<fs, last>>

\* the process ends; another may be started in its place
PutExit(p) ==
  /\ procs[p].pc = "done"
  /\ procs' = [procs EXCEPT ![p] = Idle]
  /\ UNCHANGED <<fs, last>>

NextConc ==
  \E p \in Procs :
    \/ \E content \in Contents : PutCall(p, content)
    \/ PutWrite(p)
    \/ PutCreateDir(p)
    \/ PutRewrite(p)
    \/ PutPrintln(p)
    \/ PutExit(p)

SpecConc == Init /\ [][NextConc]_vars

----------------------------------------------------------------------------
(* The claims.                                                             *)

DomainErrors == {"MalformedObject", "ObjectNotFound", "InvalidObjectHash"}

\* a hash of exactly HashLen alphanumeric characters
WellFormed(hash) ==
  Len(hash) = HashLen /\ \A i \in 1..Len(hash) : IsAlphanumeric(hash[i])

\* the location of a hash: its first two characters name the shard
\* directory, the other 38 the file
Location(hash) ==
  ObjectsPrefix \o SubSeq(hash, 1, 2) \o <<SLASH>> \o SubSeq(hash, 3, Len(hash))

\* C1: after put(c) returned a hash, get of that hash succeeds and yields
\* exactly c.
C1_RoundTrip ==
  [][(/\ last.op = "hash_object" /\ last.res.kind = "Ok"
      /\ last'.op = "cat_file" /\ last'.arg = PrintedHash)
     => (last'.res.kind = "Ok" /\ Utf8Encode(last'.out) = last.arg)]_vars

\* C2: with the root initialized, put(c) right after put(c) returns Ok and
\* the same hash as the first call did, and leaves the store as the first
\* call left it.
C2_PutIdempotent ==
  [][(/\ last.op = "hash_object" /\ last'.op = "hash_object"
      /\ last'.arg = last.arg /\ RootReady(fs))
     => (/\ last.res.kind = "Ok" /\ last'.res.kind = "Ok"
         /\ last.out = HashLiteral \o <<NEWLINE>>
         /\ last'.out = last.out
         /\ fs' = fs)]_vars

\* a second put of the same content has returned Ok
C2_Witness ==
  /\ last.op = "hash_object" /\ last.again /\ last.res.kind = "Ok"
  /\ RootReady(fs)
  /\ IsFile(fs, Normalize(ObjectPath))

\* C3: two puts of different contents return different hashes.
C3_HashNotReused ==
  [][(/\ last.op = "hash_object" /\ last.res.kind = "Ok"
      /\ last'.op = "hash_object" /\ last'.res.kind = "Ok"
      /\ last'.arg # last.arg)
     => last'.out # last.out]_vars

\* C4: a hash whose length is not 40 or that holds a non-alphanumeric
\* character makes parse_object_path_from_hash and cat_file fail with
\* InvalidObjectHash carrying the hash as given, before any storage call
\* and with nothing printed.
C4_InvalidHashRejected ==
  (/\ last.op \in {"cat_file", "parse_object_path_from_hash"}
   /\ ~WellFormed(last.arg))
  => (/\ last.res = Err("InvalidObjectHash", last.arg)
      /\ last.io = <<>>
      /\ last.out = <<>>)

\* cat_file has rejected the 40-character hash of the test, which holds '/'
C4_Witness ==
  /\ last.op = "cat_file"
  /\ last.arg = TestBadHash
  /\ last.res.err = "InvalidObjectHash"

\* C5: get of a well-formed hash with no object file at its location fails
\* with ObjectNotFound and leaves the store unchanged.
C5_MissingObjectNotFound ==
  [][(/\ last'.op = "cat_file" /\ WellFormed(last'.arg)
      /\ ~IsFile(fs, Normalize(Location(last'.arg))))
     => (last'.res = Err("ObjectNotFound", <<>>) /\ fs' = fs)]_vars

\* the size field of a stream: what follows the tag and the white space
\* after it, up to the first NUL
SizeField(bytes) ==
  LET rest == TrimStart(Utf8Decode(SubSeq(bytes, HeaderLen + 1, Len(bytes))))
  IN  SubSeq(rest, 1, IndexOf(rest, NUL) - 1)

\* an integer in decimal: an optional sign, then one or more digits
IsInteger(s) ==
  LET digits == IF s # <<>> /\ Head(s) \in {PLUS, 45} THEN Tail(s) ELSE s
  IN  digits # <<>> /\ \A i \in 1..Len(digits) : IsAsciiDigit(digits[i])

\* a stream that is no object frame: a tag other than "blob" (a short or
\* non-UTF-8 one included), a remainder that is not UTF-8, no NUL, or a
\* size field that is no integer
NotAFrame(bytes) ==
  LET rest == SubSeq(bytes, HeaderLen + 1, Len(bytes))
  IN  \/ Len(bytes) < HeaderLen
      \/ SubSeq(bytes, 1, HeaderLen) # Utf8Encode(BlobTag)
      \/ ~Utf8Valid(rest)
      \/ IndexOf(rest, NUL) = 0
      \/ ~IsInteger(SizeField(bytes))

\* C6: parse_blob on a present stream that is no object frame returns the
\* error MalformedObject: it neither aborts nor returns content.
C6_DecodeAllOrNothing ==
  (last.op = "parse_blob" /\ last.present /\ NotAFrame(last.arg))
  => last.res = Err("MalformedObject", <<>>)

\* C7: parse_blob on "blob" SP decimal(n) NUL payload returns payload, for
\* every n >= 0 and whether or not n is the length of payload.  The
\* payloads are those a String can hold; parse_blob returns a String.
C7_FrameDecodes ==
  \A n \in FrameSizes, payload \in {b \in PayloadInputs : Utf8Valid(b)} :
    (last.op = "parse_blob" /\ last.present /\ last.arg = Frame(n, payload))
    => (last.res.kind = "Ok" /\ Utf8Encode(last.res.val) = payload)

\* C8: parse_object_path_from_hash on 40 alphanumeric characters returns
\* "./.git/objects/" shard "/" file, shard being the first 2 characters of
\* the hash and file the other 38.
C8_LocationSplit ==
  (last.op = "parse_object_path_from_hash" /\ WellFormed(last.arg))
  => last.res = Ok(Location(last.arg))

\* C9: a storage call that fails with a backend fault makes put and get
\* return an error that is none of the three domain errors, and put
\* returns Ok only with the object file written.
C9_BackendFailuresSurface ==
  /\ (/\ last.op \in {"hash_object", "cat_file"}
      /\ \E i \in 1..Len(last.io) : last.io[i].outcome \in BackendFaults)
     => (last.res.kind = "Err" /\ last.res.err \notin DomainErrors)
  /\ (last.op = "hash_object" /\ last.res.kind = "Ok")
     => IsFile(fs, Normalize(ObjectPath))

\* C10: two puts, both called with the root ready and the shard directory
\* absent, both return Ok with the hash, and the object file is there.
C10_ConcurrentPutsSucceed ==
  (\A p \in Procs : procs[p].pc = "done" /\ procs[p].missing)
  => (/\ \A p \in Procs : /\ procs[p].res.kind = "Ok"
                          /\ procs[p].out = HashLiteral \o <<NEWLINE>>
      /\ IsFile(fs, Normalize(ObjectPath)))

====
